---- MODULE Spec2Model ----
(* A model of src/src/App.tsx: the inline formatter renderInline, the block   *)
(* segmenter MarkdownRenderer and the search state of MedicalAssistant.      *)
(* A JavaScript string is a sequence of one-character strings.               *)
EXTENDS Integers, Sequences, FiniteSets, TLC

VARIABLES
    content,      \* MarkdownRenderer: the content prop
    lines,        \* MarkdownRenderer: content.split('\n')
    i,            \* MarkdownRenderer: the loop cursor (0-based, as in the code)
    nodes,        \* MarkdownRenderer: the nodes pushed so far
    pc,           \* MarkdownRenderer: "loop" inside the for loop, "done" after return
    text,         \* renderInline: the argument
    parts,        \* renderInline: the array returned
    fpc,          \* renderInline: "call" before it runs, "done" once it returned
    apiKey,       \* MedicalAssistant: useState('')
    query,        \* MedicalAssistant: useState('')
    loading,      \* MedicalAssistant: useState(false)
    response,     \* MedicalAssistant: useState(null)
    error,        \* MedicalAssistant: useState('')
    showSettings, \* MedicalAssistant: useState(true)
    pending,      \* MedicalAssistant: the fetch calls awaiting their answer
    submitted     \* MedicalAssistant: how many fetch calls were started

vars == <<content, lines, i, nodes, pc, text, parts, fpc,
          apiKey, query, loading, response, error, showSettings, pending, submitted>>

mdVars == <<content, lines, i, nodes, pc>>
fmtVars == <<text, parts, fpc>>
uiVars == <<apiKey, query, loading, response, error, showSettings, pending, submitted>>

(* ------------------------------ bounds ---------------------------------- *)

MaxLines == 3      \* lines of a content
MaxTextLen == 5    \* characters of a renderInline argument
MaxSearches == 3   \* fetch calls started in one behaviour

(* --------------------------- string helpers ----------------------------- *)

Min(S) == CHOOSE x \in S : \A y \in S : x <= y

WhiteSpace == {" ", "\t", "\r", "\n"}
LineTerminator == {"\n", "\r"}
Digit == {"0", "1", "2", "3", "4", "5", "6", "7", "8", "9"}

StartsWith(s, p) == Len(s) >= Len(p) /\ SubSeq(s, 1, Len(p)) = p
EndsWith(s, p) == Len(s) >= Len(p) /\ SubSeq(s, Len(s) - Len(p) + 1, Len(s)) = p

\* s.substring(n)
Substring(s, n) == SubSeq(s, n + 1, Len(s))

\* s.trim()
Trim(s) ==
    LET keep == {k \in 1..Len(s) : s[k] \notin WhiteSpace}
    IN IF keep = {} THEN <<>>
       ELSE SubSeq(s, Min(keep), CHOOSE k \in keep : \A m \in keep : m <= k)

\* s.split(c) for a one-character separator c
RECURSIVE Split(_, _)
Split(s, c) ==
    LET at == {k \in 1..Len(s) : s[k] = c}
    IN IF at = {} THEN <<s>>
       ELSE <<SubSeq(s, 1, Min(at) - 1)>> \o Split(SubSeq(s, Min(at) + 1, Len(s)), c)

RECURSIVE Concat(_)
Concat(ss) == IF ss = <<>> THEN <<>> ELSE Head(ss) \o Concat(Tail(ss))

(* ----------------------------- renderInline ----------------------------- *)

Stars == <<"*", "*">>

\* a string child and a <strong> child of the returned array
PlainText(s) == [em |-> FALSE, s |-> s]
Emphasized(s) == [em |-> TRUE, s |-> s]

\* Where a match of /\*\*.*?\*\*/ that opens at p closes: the first "**" at
\* q >= p + 2 with no line terminator between (0 when there is none).
MatchClose(t, p) ==
    LET qs == {q \in (p + 2)..(Len(t) - 1) :
                  /\ t[q] = "*" /\ t[q + 1] = "*"
                  /\ \A k \in (p + 2)..(q - 1) : t[k] \notin LineTerminator}
    IN IF qs = {} THEN 0 ELSE Min(qs)

\* The leftmost match that opens at or after from (0 when there is none).
MatchOpen(t, from) ==
    LET ps == {p \in from..(Len(t) - 3) :
                  t[p] = "*" /\ t[p + 1] = "*" /\ MatchClose(t, p) # 0}
    IN IF ps = {} THEN 0 ELSE Min(ps)

\* text.split(/(\*\*.*?\*\*)/g): the stretches between the matches, with the
\* matches themselves (the capturing group) in between.
RECURSIVE SplitBold(_, _)
SplitBold(t, from) ==
    LET p == MatchOpen(t, from)
    IN IF p = 0 THEN <<SubSeq(t, from, Len(t))>>
       ELSE <<SubSeq(t, from, p - 1), SubSeq(t, p, MatchClose(t, p) + 1)>>
                \o SplitBold(t, MatchClose(t, p) + 2)

\* part.startsWith('**') && part.endsWith('**')
IsBoldPart(part) == StartsWith(part, Stars) /\ EndsWith(part, Stars)

\* part.slice(2, -2)
Slice2(part) == SubSeq(part, 3, Len(part) - 2)

\* parts.map((part, i) => ...)
RECURSIVE MapParts(_)
MapParts(ps) ==
    IF ps = <<>> THEN <<>>
    ELSE <<IF IsBoldPart(Head(ps)) THEN Emphasized(Slice2(Head(ps)))
           ELSE PlainText(Head(ps))>> \o MapParts(Tail(ps))

renderInline(t) == MapParts(SplitBold(t, 1))

(* --------------------------- MarkdownRenderer --------------------------- *)

H3Prefix == <<"#", "#", "#", " ">>
H2Prefix == <<"#", "#", " ">>

IsH3(line) == StartsWith(line, H3Prefix)
IsH2(line) == StartsWith(line, H2Prefix)
IsTableRow(line) == StartsWith(line, <<"|">>)
IsUnordered(line) == StartsWith(line, <<"*", " ">>) \/ StartsWith(line, <<"-", " ">>)

\* how many characters /^\d+\./ matches (0 when it does not match)
OrderedMarker(line) ==
    LET nd == Min({k \in 0..Len(line) : k = Len(line) \/ line[k + 1] \notin Digit})
    IN IF nd >= 1 /\ nd < Len(line) /\ line[nd + 1] = "." THEN nd + 1 ELSE 0

IsOrdered(line) == OrderedMarker(line) # 0

\* a slip: line.replace(/^\d+\./, ''), the white space kept
StripOrderedKeepSpace(line) == Substring(line, OrderedMarker(line))

\* line.replace(/^\d+\.\s*/, '')
StripOrdered(line) ==
    LET m == OrderedMarker(line)
        ws == Min({k \in m..Len(line) : k = Len(line) \/ line[k + 1] \notin WhiteSpace})
    IN Substring(line, ws)

\* a slip: the paragraph test moved before the list tests
ClassifyParagraphEarly(line) ==
    IF IsH3(line) THEN "h3"
    ELSE IF IsH2(line) THEN "h2"
    ELSE IF IsTableRow(line) THEN "table"
    ELSE IF Len(line) > 0 THEN "p"
    ELSE IF IsUnordered(line) THEN "ul"
    ELSE IF IsOrdered(line) THEN "ol"
    ELSE "blank"

\* the if / else-if chain of the loop body: the first test that passes
Classify(line) ==
    IF IsH3(line) THEN "h3"
    ELSE IF IsH2(line) THEN "h2"
    ELSE IF IsTableRow(line) THEN "table"
    ELSE IF IsUnordered(line) THEN "ul"
    ELSE IF IsOrdered(line) THEN "ol"
    ELSE IF Len(line) > 0 THEN "p"
    ELSE "blank"

\* The nodes, as the children each one renders.
Node(kind, children, items, headers, rows) ==
    [kind |-> kind, children |-> children, items |-> items,
     headers |-> headers, rows |-> rows]

\* <h3>/<h2>: the rest of the line is the one child, a string
HeadingNode(kind, rest) == Node(kind, <<PlainText(rest)>>, <<>>, <<>>, <<>>)
ParagraphNode(line) == Node("p", renderInline(line), <<>>, <<>>, <<>>)
\* items.map(item => renderInline(item)), for list items and table cells
RECURSIVE MapRenderInline(_)
MapRenderInline(items) ==
    IF items = <<>> THEN <<>>
    ELSE <<renderInline(Head(items))>> \o MapRenderInline(Tail(items))

ListNode(kind, listItems) == Node(kind, <<>>, MapRenderInline(listItems), <<>>, <<>>)

\* .filter(c => c.trim() !== '').map(c => c.trim())
RECURSIVE TrimmedNonBlank(_)
TrimmedNonBlank(cs) ==
    IF cs = <<>> THEN <<>>
    ELSE (IF Trim(Head(cs)) # <<>> THEN <<Trim(Head(cs))>> ELSE <<>>)
            \o TrimmedNonBlank(Tail(cs))

\* r.split('|').filter(c => c.trim() !== '').map(c => c.trim())
Cells(row) == TrimmedNonBlank(Split(row, "|"))

\* a slip: tableRows.slice(1), the separator row kept as data
DataRowsFromSeparator(tableRows) == SubSeq(tableRows, 2, Len(tableRows))

\* tableRows.slice(2)
DataRows(tableRows) == SubSeq(tableRows, 3, Len(tableRows))

\* rows.map(row => row.map(cell => renderInline(cell))), rows the cells of
\* the data rows
RECURSIVE MapRows(_)
MapRows(rs) ==
    IF rs = <<>> THEN <<>>
    ELSE <<MapRenderInline(Cells(Head(rs)))>> \o MapRows(Tail(rs))

TableNode(tableRows) ==
    Node("table", <<>>, <<>>, Cells(tableRows[1]), MapRows(DataRows(tableRows)))

\* The inner while loops: the first index at or after from (0-based) that is
\* the end of the input or whose trimmed line fails the run's test.
TableRunEnd(ls, from) ==
    Min({j \in from..Len(ls) : j = Len(ls) \/ ~IsTableRow(Trim(ls[j + 1]))})
UnorderedRunEnd(ls, from) ==
    Min({j \in from..Len(ls) : j = Len(ls) \/ ~IsUnordered(Trim(ls[j + 1]))})
OrderedRunEnd(ls, from) ==
    Min({j \in from..Len(ls) : j = Len(ls) \/ ~IsOrdered(Trim(ls[j + 1]))})

\* a slip: the inner loop's i-- left out
AfterRunNoBacktrack(end) == end + 1

\* i after the inner loop's i--, then the for loop's i++
AfterRun(end) == (end - 1) + 1

\* tableRows / listItems as the inner loops push them, from cursor from on
RECURSIVE TableRows(_, _)
TableRows(ls, from) ==
    IF from < Len(ls) /\ IsTableRow(Trim(ls[from + 1]))
    THEN <<Trim(ls[from + 1])>> \o TableRows(ls, from + 1)
    ELSE <<>>
RECURSIVE UnorderedItems(_, _)
UnorderedItems(ls, from) ==
    IF from < Len(ls) /\ IsUnordered(Trim(ls[from + 1]))
    THEN <<Substring(Trim(ls[from + 1]), 2)>> \o UnorderedItems(ls, from + 1)
    ELSE <<>>
RECURSIVE OrderedItems(_, _)
OrderedItems(ls, from) ==
    IF from < Len(ls) /\ IsOrdered(Trim(ls[from + 1]))
    THEN <<StripOrdered(Trim(ls[from + 1]))>> \o OrderedItems(ls, from + 1)
    ELSE <<>>

\* a slip: if (tableRows.length >= 1)
PushedTableFromOneRow(tableRows) ==
    IF Len(tableRows) >= 1 THEN <<TableNode(tableRows)>> ELSE <<>>

\* if (tableRows.length >= 2) nodes.push(<table>)
PushedTable(tableRows) ==
    IF Len(tableRows) >= 2 THEN <<TableNode(tableRows)>> ELSE <<>>

\* One iteration of the for loop at cursor at: the nodes it pushes.
Pushed(ls, at) ==
    LET line == Trim(ls[at + 1])
        kind == Classify(line)
    IN CASE kind = "h3" -> <<HeadingNode("h3", Substring(line, 4))>>
         [] kind = "h2" -> <<HeadingNode("h2", Substring(line, 3))>>
         [] kind = "table" -> PushedTable(TableRows(ls, at))
         [] kind = "ul" -> <<ListNode("ul", UnorderedItems(ls, at))>>
         [] kind = "ol" -> <<ListNode("ol", OrderedItems(ls, at))>>
         [] kind = "p" -> <<ParagraphNode(line)>>
         [] OTHER -> <<>>

\* One iteration of the for loop at cursor at: the cursor of the next one.
Advance(ls, at) ==
    LET kind == Classify(Trim(ls[at + 1]))
    IN CASE kind = "table" -> AfterRun(TableRunEnd(ls, at))
         [] kind = "ul" -> AfterRun(UnorderedRunEnd(ls, at))
         [] kind = "ol" -> AfterRun(OrderedRunEnd(ls, at))
         [] OTHER -> at + 1

\* The whole component as a function of its prop: the nodes it returns.
RECURSIVE Scan(_, _, _)
Scan(ls, at, out) ==
    IF at < Len(ls) THEN Scan(ls, Advance(ls, at), out \o Pushed(ls, at)) ELSE out

MarkdownRenderer(c) == Scan(Split(c, "\n"), 0, <<>>)

(* ------------------------- the inputs of the model ---------------------- *)

SeqsUpTo(S, n) == UNION {[1..m -> S] : m \in 0..n}

\* The lines a content is made of: one or more of every kind the loop tells
\* apart, with the surrounding white space trim() removes.
LineChoices ==
    { <<" ">>,                                          \* blank
      <<"a">>,                                          \* paragraph
      <<"*", "*">>,                                     \* paragraph, a lone **
      <<"#", "#", "#", " ", "|", "a", "|">>,            \* ### |a|
      <<"#", "#", " ", "*", "*", "a", "*", "*">>,       \* ## **a**
      <<"|", " ", "a", "|", "b", " ", "|">>,            \* | a|b |
      <<"|">>,                                          \* |
      <<" ", "|", "*", "*", "a", "*", "*", "|">>,       \*  |**a**|
      <<" ", "*", " ", "a", " ">>,                      \*  * a
      <<"-", " ", "*", "*", "a", "*", "*">>,            \* - **a**
      <<"1", ".", " ", "a">>,                           \* 1. a
      <<"1", "2", ".", "b">>,                           \* 12.b
      <<"1", ".">>,                                     \* 1.
      <<"#", "#", "#">> }                               \* ###, no heading

\* lines.join('\n')
RECURSIVE JoinLines(_)
JoinLines(ls) ==
    IF ls = <<>> THEN <<>>
    ELSE IF Len(ls) = 1 THEN ls[1]
    ELSE ls[1] \o <<"\n">> \o JoinLines(Tail(ls))

Contents == {JoinLines(ls) : ls \in SeqsUpTo(LineChoices, MaxLines)}

TextAlphabet == {"*", "a", " "}
Texts == SeqsUpTo(TextAlphabet, MaxTextLen)

Null == [null |-> TRUE]

(* --------------------- MarkdownRenderer, step by step ------------------- *)

mdIdle == content = <<>> /\ lines = <<>> /\ i = 0 /\ nodes = <<>> /\ pc = "idle"
fmtIdle == text = <<>> /\ parts = <<>> /\ fpc = "idle"
uiIdle ==
    /\ apiKey = <<>> /\ query = <<>> /\ loading = FALSE /\ response = Null
    /\ error = "" /\ showSettings = TRUE /\ pending = {} /\ submitted = 0

\* the component is not rendered yet
Init == mdIdle /\ fmtIdle /\ uiIdle

\* <MarkdownRenderer content={...} />: lines = content.split('\n'),
\* nodes = [] and the for loop's i = 0
Render ==
    /\ pc = "idle"
    /\ \E c \in Contents :
          /\ content' = c
          /\ lines' = Split(c, "\n")
    /\ i' = 0
    /\ nodes' = <<>>
    /\ pc' = "loop"
    /\ UNCHANGED <<fmtVars, uiVars>>

\* the loop body when the test of kind is the first to pass
Iteration(kind) ==
    /\ pc = "loop"
    /\ i < Len(lines)
    /\ Classify(Trim(lines[i + 1])) = kind
    /\ nodes' = nodes \o Pushed(lines, i)
    /\ i' = Advance(lines, i)
    /\ UNCHANGED <<content, lines, pc, fmtVars, uiVars>>

Heading3 == Iteration("h3")
Heading2 == Iteration("h2")
Table == Iteration("table")
UnorderedList == Iteration("ul")
OrderedList == Iteration("ol")
Paragraph == Iteration("p")
BlankLine == Iteration("blank")

\* i < lines.length fails: return <>{nodes}</>
Return ==
    /\ pc = "loop"
    /\ i >= Len(lines)
    /\ pc' = "done"
    /\ UNCHANGED <<content, lines, i, nodes, fmtVars, uiVars>>

\* the for loop, once entered
Loop ==
    \/ Heading3 \/ Heading2 \/ Table \/ UnorderedList \/ OrderedList
    \/ Paragraph \/ BlankLine \/ Return

Next == Render \/ Loop

Spec == Init /\ [][Next]_vars

\* The control of the for loop: while i < lines.length the body runs and
\* leaves the cursor somewhere, then the loop is left.
LoopControl ==
    /\ pc = "loop"
    /\ \/ i < Len(lines) /\ pc' = "loop" /\ i' \in 0..(Len(lines) + 1)
       \/ i >= Len(lines) /\ pc' = "done" /\ i' = i

\* the loop is synchronous code: once entered, it keeps running
FairSpec == Spec /\ WF_<<pc, i>>(LoopControl)

(* ------------------------- renderInline, as a call ---------------------- *)

InitFormat ==
    /\ text \in Texts
    /\ parts = <<>>
    /\ fpc = "call"
    /\ mdIdle /\ uiIdle

CallRenderInline ==
    /\ fpc = "call"
    /\ parts' = renderInline(text)
    /\ fpc' = "done"
    /\ UNCHANGED <<text, mdVars, uiVars>>

NextFormat == CallRenderInline

SpecFormat == InitFormat /\ [][NextFormat]_vars

(* ---------------------------- MedicalAssistant -------------------------- *)

\* what the user can type into the two inputs
KeyChoices == {<<>>, <<" ">>, <<"k">>}
QueryChoices == {<<>>, <<" ">>, <<"q">>}
\* the four quick prompts of the array literal
QuickPrompts == {<<"A">>, <<"G">>, <<"I">>, <<"C">>}

NoKeyMessage == "Please enter your Gemini API Key in settings first."
FetchMessage == "An error occurred. Please check your API key and internet connection."

InitUI ==
    /\ apiKey = <<>>
    /\ query = <<>>
    /\ loading = FALSE
    /\ response = Null
    /\ error = ""
    /\ showSettings = TRUE
    /\ pending = {}
    /\ submitted = 0
    /\ mdIdle /\ fmtIdle

\* handleSearch up to its first await
handleSearch ==
    IF Trim(query) = <<>> THEN UNCHANGED uiVars
    ELSE IF Trim(apiKey) = <<>>
    THEN /\ error' = NoKeyMessage
         /\ showSettings' = TRUE
         /\ UNCHANGED <<apiKey, query, loading, response, pending, submitted>>
    ELSE /\ submitted < MaxSearches
         /\ loading' = TRUE
         /\ error' = ""
         /\ response' = Null
         /\ submitted' = submitted + 1
         /\ pending' = pending \cup {submitted + 1}
         /\ UNCHANGED <<apiKey, query, showSettings>>

\* the Ask button: onClick={handleSearch} disabled={loading}
ClickAsk ==
    /\ ~loading
    /\ handleSearch
    /\ UNCHANGED <<mdVars, fmtVars>>

\* the query input: onKeyDown={(e) => e.key === 'Enter' && handleSearch()}
PressEnter ==
    /\ handleSearch
    /\ UNCHANGED <<mdVars, fmtVars>>

\* handleSearch after the awaits, res.ok: setResponse, then finally
FetchSuccess ==
    \E id \in pending :
        /\ response' = [id |-> id]
        /\ loading' = FALSE
        /\ pending' = pending \ {id}
        /\ UNCHANGED <<apiKey, query, error, showSettings, submitted, mdVars, fmtVars>>

\* handleSearch after the awaits, a throw: catch, then finally
FetchFailure ==
    \E id \in pending :
        /\ error' = FetchMessage
        /\ loading' = FALSE
        /\ pending' = pending \ {id}
        /\ UNCHANGED <<apiKey, query, response, showSettings, submitted, mdVars, fmtVars>>

SetApiKey ==
    \E k \in KeyChoices :
        /\ apiKey' = k
        /\ UNCHANGED <<query, loading, response, error, showSettings, pending, submitted,
                       mdVars, fmtVars>>

SetQuery ==
    \E q \in QueryChoices :
        /\ query' = q
        /\ UNCHANGED <<apiKey, loading, response, error, showSettings, pending, submitted,
                       mdVars, fmtVars>>

\* the quick prompts, rendered when !response && !loading
QuickPrompt ==
    /\ response = Null /\ ~loading
    /\ \E item \in QuickPrompts : query' = item
    /\ UNCHANGED <<apiKey, loading, response, error, showSettings, pending, submitted,
                   mdVars, fmtVars>>

\* the settings buttons: the header's toggle, the panel's X and Save & Close
SettingsButton ==
    /\ showSettings' \in {~showSettings} \cup (IF showSettings THEN {FALSE} ELSE {})
    /\ UNCHANGED <<apiKey, query, loading, response, error, pending, submitted,
                   mdVars, fmtVars>>

NextUI ==
    \/ ClickAsk \/ PressEnter \/ FetchSuccess \/ FetchFailure
    \/ SetApiKey \/ SetQuery \/ QuickPrompt \/ SettingsButton

SpecUI == InitUI /\ [][NextUI]_vars

(* ======================= the claims: renderInline ======================= *)

\* The spans a returned array renders: React renders nothing for an empty
\* string child, so only the other children are spans.
IsSpan(child) == child.em \/ child.s # <<>>
Rendered(children) == SelectSeq(children, IsSpan)

\* the markup a span stands for
SpanMarkup(span) == IF span.em THEN Stars \o span.s \o Stars ELSE span.s
Unparse(children) == Concat([k \in 1..Len(children) |-> SpanMarkup(children[k])])

EmCount(children) == Cardinality({k \in 1..Len(children) : children[k].em})

\* the first "**" of t at or after from (0 when there is none)
FirstStars(t, from) ==
    LET ps == {p \in from..(Len(t) - 1) : t[p] = "*" /\ t[p + 1] = "*"}
    IN IF ps = {} THEN 0 ELSE Min(ps)

\* how many "**" a left-to-right scan of t meets
RECURSIVE StarCount(_)
StarCount(t) ==
    IF FirstStars(t, 1) = 0 THEN 0
    ELSE 1 + StarCount(SubSeq(t, FirstStars(t, 1) + 2, Len(t)))

\* The segmentation the specification describes: a left-to-right scan that
\* pairs each "**" with the next one.
RECURSIVE RefSpans(_)
RefSpans(t) ==
    LET p == FirstStars(t, 1)
        q == IF p = 0 THEN 0 ELSE FirstStars(t, p + 2)
    IN IF q = 0 THEN (IF t = <<>> THEN <<>> ELSE <<PlainText(t)>>)
       ELSE (IF p > 1 THEN <<PlainText(SubSeq(t, 1, p - 1))>> ELSE <<>>)
                \o <<Emphasized(SubSeq(t, p + 2, q - 1))>>
                \o RefSpans(SubSeq(t, q + 2, Len(t)))

\* C3: a "**" left without a closing "**" (the scan meets an odd number of
\* them) makes no Emphasized span and stays in the output as two literal
\* asterisks: one Emphasized span per matched pair, and the spans put back
\* into markup give the input, no character lost.
C3_StrayStarsStayLiteral ==
    (fpc = "done" /\ StarCount(text) % 2 = 1) =>
        /\ EmCount(parts) = StarCount(text) \div 2
        /\ Unparse(parts) = text

\* C4: the spans returned are exactly the alternating segmentation of a
\* left-to-right non-greedy scan for ** pairs: a PlainText for each stretch
\* outside a matched pair, an Emphasized for each matched pair, nothing else.
C4_ExactSegmentation ==
    fpc = "done" => Rendered(parts) = RefSpans(text)

(* ===================== the claims: MarkdownRenderer ===================== *)

\* The block kind the specification gives a trimmed line: its ordered
\* predicates, the first that matches.
RefKind(t) ==
    IF Len(t) >= 4 /\ t[1] = "#" /\ t[2] = "#" /\ t[3] = "#" /\ t[4] = " " THEN "h3"
    ELSE IF Len(t) >= 3 /\ t[1] = "#" /\ t[2] = "#" /\ t[3] = " " THEN "h2"
    ELSE IF Len(t) >= 1 /\ t[1] = "|" THEN "table"
    ELSE IF Len(t) >= 2 /\ t[1] \in {"*", "-"} /\ t[2] = " " THEN "ul"
    ELSE IF \E n \in 1..(Len(t) - 1) :
                (\A k \in 1..n : t[k] \in Digit) /\ t[n + 1] = "." THEN "ol"
    ELSE IF t # <<>> THEN "p"
    ELSE "blank"

\* the kind of the j-th line of the input (1-based)
LineKind(j) == RefKind(Trim(lines[j]))

GroupedKinds == {"table", "ul", "ol"}

\* how many contiguous lines of kind k start at line j
RunLen(j, k) ==
    Min({n \in 0..(Len(lines) - j + 1) : j + n > Len(lines) \/ LineKind(j + n) # k})

\* the cursor is at a line of kind k
CursorAt(k) == pc = "loop" /\ i < Len(lines) /\ LineKind(i + 1) = k

\* the iteration pushed exactly one node
PushedOne == Len(nodes') = Len(nodes) + 1 /\ SubSeq(nodes', 1, Len(nodes)) = nodes
LastPushed == nodes'[Len(nodes')]

\* The trimmed, non-empty segments of a line split on "|".
Ascending(S) ==
    LET up[T \in SUBSET S] == IF T = {} THEN <<>> ELSE <<Min(T)>> \o up[T \ {Min(T)}]
    IN up[S]
IsCell(seg) == \E k \in 1..Len(seg) : seg[k] \notin WhiteSpace
RefCells(l) ==
    LET bars == Ascending({0, Len(l) + 1} \cup {p \in 1..Len(l) : l[p] = "|"})
        segs == [k \in 1..(Len(bars) - 1) |-> SubSeq(l, bars[k] + 1, bars[k + 1] - 1)]
        cells == SelectSeq(segs, IsCell)
    IN [k \in 1..Len(cells) |-> Trim(cells[k])]

\* A Table node is pushed for a run of pipe-prefixed lines iff the run has at
\* least 2 lines, and a run of 1 line pushes no node at all.
TableIffTwoLines ==
    /\ (CursorAt("table") /\ RunLen(i + 1, "table") >= 2) =>
            (PushedOne /\ LastPushed.kind = "table")
    /\ (CursorAt("table") /\ RunLen(i + 1, "table") = 1) => nodes' = nodes
    /\ ~CursorAt("table") =>
            \A k \in (Len(nodes) + 1)..Len(nodes') : nodes'[k].kind # "table"

\* C1, as the specification states it: ..., and the Table of a run of exactly
\* 2 lines has no rows and a non-empty headers sequence.
C1_TwoLineTableHasHeaders ==
    [][/\ TableIffTwoLines
       /\ (CursorAt("table") /\ RunLen(i + 1, "table") = 2) =>
              (PushedOne /\ LastPushed.rows = <<>> /\ LastPushed.headers # <<>>)]_vars

\* C1, amended: a Table node is pushed for a run of pipe-prefixed lines iff
\* the run has at least 2 lines, a run of 1 line pushes no node at all, and
\* the Table of a run of exactly 2 lines has no rows; its headers are
\* non-empty iff the first line of the run has a segment that is not blank.
C1_TwoLineTable ==
    [][/\ TableIffTwoLines
       /\ (CursorAt("table") /\ RunLen(i + 1, "table") = 2) =>
              /\ PushedOne
              /\ LastPushed.rows = <<>>
              /\ LastPushed.headers # <<>> <=> RefCells(lines[i + 1]) # <<>>]_vars

\* a run of exactly 2 pipe-prefixed lines gave a Table without headers or rows
C1_Witness ==
    /\ pc = "done"
    /\ \E j \in 1..Len(lines) :
          /\ LineKind(j) = "table" /\ RunLen(j, "table") = 2
          /\ j = 1 \/ LineKind(j - 1) # "table"
    /\ \E k \in 1..Len(nodes) :
          nodes[k].kind = "table" /\ nodes[k].headers = <<>> /\ nodes[k].rows = <<>>

IsHeadingNode(node) == node.kind \in {"h3", "h2"}
IsHeadingLine(t) == RefKind(t) \in {"h3", "h2"}
HeadingNodes == SelectSeq(nodes, IsHeadingNode)
HeadingLines == SelectSeq([j \in 1..Len(lines) |-> Trim(lines[j])], IsHeadingLine)

\* C2: every line that starts with "### " (resp. "## ") gives a Heading of
\* level 3 (resp. 2) whose text is renderInline of the rest of the line, so
\* that **x** in a heading is an Emphasized("x") span.
C2_HeadingTextFormatted ==
    pc = "done" =>
        /\ Len(HeadingNodes) = Len(HeadingLines)
        /\ \A k \in 1..Len(HeadingLines) :
              /\ HeadingNodes[k].kind = RefKind(HeadingLines[k])
              /\ Rendered(HeadingNodes[k].children) =
                    Rendered(renderInline(Substring(HeadingLines[k],
                        IF RefKind(HeadingLines[k]) = "h3" THEN 4 ELSE 3)))

\* C5: the Table of a run of N >= 2 lines has the trimmed non-empty segments
\* of run[0] as its headers, kept as strings, and N - 2 rows, row k the
\* trimmed non-empty segments of run[k + 2], each cell through renderInline;
\* run[1] is dropped whatever it holds.
C5_TableContents ==
    [][(CursorAt("table") /\ RunLen(i + 1, "table") >= 2) =>
          /\ PushedOne
          /\ LastPushed.headers = RefCells(lines[i + 1])
          /\ Len(LastPushed.rows) = RunLen(i + 1, "table") - 2
          /\ \A k \in 1..(RunLen(i + 1, "table") - 2) :
                LastPushed.rows[k] =
                    [c \in 1..Len(RefCells(lines[i + k + 2])) |->
                        renderInline(RefCells(lines[i + k + 2])[c])]]_vars

\* a Table with two headers and a data row that holds an Emphasized span
C5_Witness ==
    /\ pc = "done"
    /\ \E k \in 1..Len(nodes) :
          /\ nodes[k].kind = "table"
          /\ Len(nodes[k].headers) = 2
          /\ \E r \in 1..Len(nodes[k].rows) : \E c \in 1..Len(nodes[k].rows[r]) :
                EmCount(nodes[k].rows[r][c]) >= 1

\* One iteration at a table, unordered-list or ordered-list line consumes the
\* maximal run of lines of that kind and leaves the cursor on the first line
\* that is not of it; every other iteration consumes one line.
RunIsMaximal ==
    (pc = "loop" /\ i < Len(lines)) =>
        IF LineKind(i + 1) \in GroupedKinds
        THEN /\ i' > i
             /\ i' <= Len(lines)
             /\ \A j \in (i + 1)..i' : LineKind(j) = LineKind(i + 1)
             /\ i' < Len(lines) => LineKind(i' + 1) # LineKind(i + 1)
        ELSE i' = i + 1

\* C6: every grouping run is maximal, the outer scan next classifies exactly
\* the first line after the run (no line skipped, none classified twice),
\* and the scan reaches the end of the input.
C6_RunsMaximalScanEnds == [][RunIsMaximal]_vars /\ (pc = "loop" ~> pc = "done")

\* a run of two list lines was consumed and the cursor is on the line after it
C6_Witness ==
    /\ pc = "loop" /\ i = 2 /\ Len(lines) = 3
    /\ LineKind(1) = "ul" /\ LineKind(2) = "ul" /\ LineKind(3) # "ul"
    /\ Len(nodes) = 1 /\ Len(nodes[1].items) = 2

\* The blocks of the input from line j on: kind and number of lines, by the
\* first matching predicate, the contiguous lines of a grouped kind together.
RECURSIVE RefBlocks(_)
RefBlocks(j) ==
    IF j > Len(lines) THEN <<>>
    ELSE LET k == LineKind(j)
             n == IF k \in GroupedKinds THEN RunLen(j, k) ELSE 1
         IN (IF k = "blank" \/ (k = "table" /\ n < 2) THEN <<>>
             ELSE <<[kind |-> k, size |-> n]>>) \o RefBlocks(j + n)

NodeShape(node) ==
    [kind |-> node.kind,
     size |-> CASE node.kind \in {"ul", "ol"} -> Len(node.items)
                [] node.kind = "table" -> Len(node.rows) + 2
                [] OTHER -> 1]

\* the kind and the number of lines of every block, in order
Outline(doc) == [k \in 1..Len(doc) |-> NodeShape(doc[k])]

\* C7: the kind of every block is the first predicate its line matches, in
\* the order heading-3, heading-2, table, unordered list, ordered list,
\* paragraph, blank; a "### " line is a Heading whatever follows, and an
\* ordered-list line after unordered-list lines starts its own OrderedList.
C7_FirstMatchWins ==
    pc = "done" => Outline(nodes) = RefBlocks(1)

\* "### |a|" became a Heading, and an UnorderedList is followed at once by
\* the OrderedList of the line after it
C7_Witness ==
    /\ pc = "done"
    /\ \E j \in 1..Len(lines) :
          LineKind(j) = "h3" /\ RefKind(Substring(Trim(lines[j]), 4)) = "table"
    /\ \E j \in 1..(Len(lines) - 1) : LineKind(j) = "ul" /\ LineKind(j + 1) = "ol"
    /\ \E k \in 1..(Len(nodes) - 1) :
          nodes[k].kind = "ul" /\ nodes[k + 1].kind = "ol" /\ Len(nodes[k].items) = 1

(* ----------------------- C8: serialize and re-parse --------------------- *)

DigitChars == <<"0", "1", "2", "3", "4", "5", "6", "7", "8", "9">>

\* the decimal digits of n >= 1
RECURSIVE Decimal(_)
Decimal(n) ==
    IF n < 10 THEN <<DigitChars[n + 1]>>
    ELSE Decimal(n \div 10) \o <<DigitChars[(n % 10) + 1]>>

\* The minimal markup of a block: one line per heading, paragraph and list
\* item, with the prefix of its kind (the position for an ordered item).
RECURSIVE ItemLines(_, _, _)
ItemLines(kind, items, k) ==
    IF k > Len(items) THEN <<>>
    ELSE <<(IF kind = "ul" THEN <<"*", " ">> ELSE Decimal(k) \o <<".", " ">>)
              \o Unparse(items[k])>> \o ItemLines(kind, items, k + 1)

BlockLines(node) ==
    CASE node.kind = "h3" -> <<H3Prefix \o Unparse(node.children)>>
      [] node.kind = "h2" -> <<H2Prefix \o Unparse(node.children)>>
      [] node.kind = "p" -> <<Unparse(node.children)>>
      [] OTHER -> ItemLines(node.kind, node.items, 1)

RECURSIVE DocumentLines(_)
DocumentLines(doc) ==
    IF doc = <<>> THEN <<>> ELSE BlockLines(Head(doc)) \o DocumentLines(Tail(doc))

Serialize(doc) == JoinLines(DocumentLines(doc))

Reparsed(doc) == MarkdownRenderer(Serialize(doc))

NoTable(doc) == \A k \in 1..Len(doc) : doc[k].kind # "table"

\* a span sequence as the split gives it: it ends with a PlainText
EndsPlain(children) == children # <<>> /\ ~children[Len(children)].em

\* no list directly follows a list of its kind
ListsApart(doc) ==
    \A k \in 1..(Len(doc) - 1) :
        doc[k].kind \in {"ul", "ol"} => doc[k + 1].kind # doc[k].kind

\* every span sequence ends with a PlainText
SpansEndPlain(doc) ==
    \A k \in 1..Len(doc) :
        /\ doc[k].kind \in {"h3", "h2", "p"} => EndsPlain(doc[k].children)
        /\ \A m \in 1..Len(doc[k].items) : EndsPlain(doc[k].items[m])


C9_NoResponseNextToError == ~(error # "" /\ response # Null)

\* C10: at most one fetch is in flight at any time, loading = false implies
\* that none is pending, and the response displayed is the one of the search
\* submitted last.
C10_SingleFlight ==
    /\ Cardinality(pending) <= 1
    /\ ~loading => pending = {}
    /\ response # Null => response.id = submitted

====
